---- MODULE Spec2Model ----
(***************************************************************************)
(* Zero-shot evaluation of a ConVIRT-style dual encoder:                   *)
(*   medclip/prompts.py       the prompt generators                        *)
(*   convirt/eval_convirt.py  ConVIRT, ConVIRTClassifier, the driver loop  *)
(*                                                                         *)
(* A Python dict is a sequence of entries [name, ...] with distinct names, *)
(* in insertion order.  An optional integer (n=None) is a sequence of      *)
(* length at most one.  A missing table cell (NaN) is a column absent from *)
(* the row's domain.  Text is a TLC string, so that "a" + " " + "b c" and  *)
(* "a b" + " " + "c" are the same prompt, as they are in Python.           *)
(***************************************************************************)
EXTENDS Integers, Sequences, FiniteSets, TLC

VARIABLES
    \* ---- prompts.py: one call of a prompt generator
    fn,            \* the generator called: "class", "chexpert", "covid", or "none"
    df_sent,       \* generate_class_prompts: the sentence-label table
    task,          \* generate_class_prompts: the task argument
    n,             \* the sample size: <<>> is None, <<k>> is k
    template,      \* constants.CHEXPERT_CLASS_PROMPTS / COVID_CLASS_PROMPTS
    prompts,       \* the returned dict class -> list of prompts
    gen_pc,        \* "idle", "called", "returned", "raised"
    console,       \* the lines printed so far
    \* ---- eval_convirt.py: the model and one call of ConVIRTClassifier.forward
    params,             \* the parameters (state_dict) of the ConVIRT model
    ensemble,           \* ConVIRTClassifier.ensemble
    pixel_values,       \* the image batch
    prompt_inputs,      \* dict class -> tokenized prompts
    clf_pc,             \* "idle", "called", "loop", "returned", "raised"
    medclip_outputs,    \* what the last call of self.model returned
    class_similarities, \* the columns appended so far
    class_names,        \* the names appended so far
    outputs,            \* what forward returned
    \* ---- eval_convirt.py: the driver
    pc,            \* "idle", "start", "trial", "built", "evaluate", "record", "done", "halted"
    checkpoint,    \* the state_dict saved at the checkpoint path, None when absent
    val_data,      \* the evaluation images with their labels
    i,             \* the trial
    batch,         \* evaluate(): the batches taken from the loader so far
    correct,       \* evaluate(): the correct predictions so far
    acc_list

gen_vars == <<fn, df_sent, task, n, template, prompts, gen_pc, console>>
clf_vars == <<params, ensemble, pixel_values, prompt_inputs, clf_pc, medclip_outputs,
              class_similarities, class_names, outputs>>
drv_vars == <<pc, checkpoint, val_data, i, batch, correct, acc_list>>
vars == <<gen_vars, clf_vars, drv_vars>>

-----------------------------------------------------------------------------
(* Bounds of the model *)

MaxRows == 2       \* rows of the sentence-label table
MaxN == 2          \* largest sample size n
MaxPhrases == 2    \* phrases per component list of a template
MaxCand == 8       \* candidate prompts of a whole template
MaxImages == 2     \* images of a batch
MaxPrompts == 2    \* tokenized prompts of a class

-----------------------------------------------------------------------------
(* Python values *)

None == <<>>
Some(k) == <<k>>
IsNone(x) == x = <<>>

Range(s) == {s[idx] : idx \in DOMAIN s}

RECURSIVE SumSeq(_)
SumSeq(s) == IF s = <<>> THEN 0 ELSE Head(s) + SumSeq(Tail(s))

RECURSIVE ProdSeq(_)
ProdSeq(s) == IF s = <<>> THEN 1 ELSE Head(s) * ProdSeq(Tail(s))

\* dict: names of the entries, in insertion order
Keys(d) == [j \in DOMAIN d |-> d[j].name]

HasKey(d, k) == \E j \in DOMAIN d : d[j].name = k

\* d[k] = e: an existing key keeps its position, a new key is appended
DictSet(d, e) ==
    IF HasKey(d, e.name)
    THEN [j \in DOMAIN d |-> IF d[j].name = e.name THEN e ELSE d[j]]
    ELSE Append(d, e)

\* random.sample(population, k) and DataFrame.sample(k): k positions of the
\* population, no position twice, in any order
SamplePositions(len, k) ==
    {s \in [1..k -> 1..len] : \A a, b \in 1..k : a # b => s[a] # s[b]}

Pick(population, pos) == [a \in DOMAIN pos |-> population[pos[a]]]

-----------------------------------------------------------------------------
(* generate_class_prompts(df_sent, task, n) *)

Columns == <<"Reports", "A", "B">>
ColumnSet == Range(Columns)

\* df_sent.fillna(0)
FillNa(df) ==
    [r \in DOMAIN df |-> [c \in ColumnSet |-> IF c \in DOMAIN df[r] THEN df[r][c] ELSE 0]]

\* df_sent['Reports'].map(len) raises TypeError on a filled-in 0
ReportsAreText(df) == \A r \in DOMAIN df : "Reports" \in DOMAIN df[r]

\* df_sent.loc[df_sent['Reports'].map(len) > 4].reset_index(drop=True)
LongRows(df) == SelectSeq(df, LAMBDA row : Len(row["Reports"]) > 4)

\* df_sent.columns.tolist()[1:]
AllTasks == Tail(Columns)

TargetTasks(t) == IF t.kind = "none" THEN AllTasks ELSE t.names

OtherTasks(t) == SelectSeq(AllTasks, LAMBDA o : o # t)

\* faulty variant: the rows labelled 1 for the task, whatever their other labels
SubSentAnyOthers(df, t) == SelectSeq(df, LAMBDA row : row[t] = 1)

\* df_sent[(df_sent[task] == 1) & (df_sent[other_tasks] == 0).all(1)]
SubSent(df, t) ==
    SelectSeq(df, LAMBDA row : row[t] = 1 /\ \A o \in Range(OtherTasks(t)) : row[o] = 0)

ReportsOf(df) == [r \in DOMAIN df |-> df[r]["Reports"]]

\* lines 30-32: the lists prompts[task] can be set to
TaskPrompts(df, t, k) ==
    LET sub == ReportsOf(SubSent(df, t))
    IN  IF ~IsNone(k) /\ Len(sub) > k[1]
        THEN {Pick(sub, pos) : pos \in SamplePositions(Len(sub), k[1])}
        ELSE {sub}

\* faulty variant: a task that is no column is skipped
RECURSIVE ClassLoopSkipAbsent(_, _, _, _)
ClassLoopSkipAbsent(df, targets, k, d) ==
    IF targets = <<>> THEN {[raised |-> FALSE, prompts |-> d]}
    ELSE IF Head(targets) \notin ColumnSet THEN ClassLoopSkipAbsent(df, Tail(targets), k, d)
    ELSE UNION {ClassLoopSkipAbsent(df, Tail(targets), k,
                                    DictSet(d, [name |-> Head(targets), prompts |-> p]))
                  : p \in TaskPrompts(df, Head(targets), k)}

\* lines 27-33: the outcomes of the loop over target_tasks, from dict d on;
\* df_sent[task] raises KeyError when task is not a column
RECURSIVE ClassLoop(_, _, _, _)
ClassLoop(df, targets, k, d) ==
    IF targets = <<>> THEN {[raised |-> FALSE, prompts |-> d]}
    ELSE IF Head(targets) \notin ColumnSet THEN {[raised |-> TRUE, prompts |-> <<>>]}
    ELSE UNION {ClassLoop(df, Tail(targets), k, DictSet(d, [name |-> Head(targets), prompts |-> p]))
                  : p \in TaskPrompts(df, Head(targets), k)}

generate_class_prompts(df, t, k) ==
    IF ~ReportsAreText(df) THEN {[raised |-> TRUE, prompts |-> <<>>]}
    ELSE ClassLoop(LongRows(FillNa(df)), TargetTasks(t), k, <<>>)

-----------------------------------------------------------------------------
(* generate_chexpert_class_prompts(n), generate_covid_class_prompts(n) *)

\* f"{k0} {k1} {k2}"
Join3(k0, k1, k2) == k0 \o " " \o k1 \o " " \o k2

\* f"{k0} {k1} {k2} {k3}"
Join4(k0, k1, k2, k3) == k0 \o " " \o k1 \o " " \o k2 \o " " \o k3

\* lines 57-58: for k2 in v[keys[2]]: cls_prompts.append(f"{k0} {k1} {k2}")
RECURSIVE ChexpertLocationLoop(_, _, _)
ChexpertLocationLoop(k0, k1, l2) ==
    IF l2 = <<>> THEN <<>>
    ELSE <<Join3(k0, k1, Head(l2))>> \o ChexpertLocationLoop(k0, k1, Tail(l2))

\* lines 55-58: for k1 in v[keys[1]]
RECURSIVE ChexpertSubtypeLoop(_, _, _)
ChexpertSubtypeLoop(k0, l1, l2) ==
    IF l1 = <<>> THEN <<>>
    ELSE ChexpertLocationLoop(k0, Head(l1), l2) \o ChexpertSubtypeLoop(k0, Tail(l1), l2)

\* lines 53-58: for k0 in v[keys[0]]
RECURSIVE ChexpertSeverityLoop(_, _, _)
ChexpertSeverityLoop(l0, l1, l2) ==
    IF l0 = <<>> THEN <<>>
    ELSE ChexpertSubtypeLoop(Head(l0), l1, l2) \o ChexpertSeverityLoop(Tail(l0), l1, l2)

\* faulty variant: the subtype loop outermost, the severity loop inside it
RECURSIVE SwappedSeverityLoop(_, _, _)
SwappedSeverityLoop(l0, k1, l2) ==
    IF l0 = <<>> THEN <<>>
    ELSE ChexpertLocationLoop(Head(l0), k1, l2) \o SwappedSeverityLoop(Tail(l0), k1, l2)

RECURSIVE SwappedSubtypeLoop(_, _, _)
SwappedSubtypeLoop(l0, l1, l2) ==
    IF l1 = <<>> THEN <<>>
    ELSE SwappedSeverityLoop(l0, Head(l1), l2) \o SwappedSubtypeLoop(l0, Tail(l1), l2)

ChexpertCandidatesSwapped(v) == SwappedSubtypeLoop(v[1], v[2], v[3])

\* lines 49-58, v the component lists of one class (keys[0], keys[1], keys[2])
ChexpertCandidates(v) == ChexpertSeverityLoop(v[1], v[2], v[3])

\* lines 78-79: for k3 in v[keys[3]]: cls_prompts.append(f"{k0} {k1} {k2} {k3}")
RECURSIVE CovidLoop3(_, _, _, _)
CovidLoop3(k0, k1, k2, l3) ==
    IF l3 = <<>> THEN <<>>
    ELSE <<Join4(k0, k1, k2, Head(l3))>> \o CovidLoop3(k0, k1, k2, Tail(l3))

\* lines 77-79: for k2 in v[keys[2]]
RECURSIVE CovidLoop2(_, _, _, _)
CovidLoop2(k0, k1, l2, l3) ==
    IF l2 = <<>> THEN <<>>
    ELSE CovidLoop3(k0, k1, Head(l2), l3) \o CovidLoop2(k0, k1, Tail(l2), l3)

\* lines 76-79: for k1 in v[keys[1]]
RECURSIVE CovidLoop1(_, _, _, _)
CovidLoop1(k0, l1, l2, l3) ==
    IF l1 = <<>> THEN <<>>
    ELSE CovidLoop2(k0, Head(l1), l2, l3) \o CovidLoop1(k0, Tail(l1), l2, l3)

\* lines 75-79: for k0 in v[keys[0]]
RECURSIVE CovidLoop0(_, _, _, _)
CovidLoop0(l0, l1, l2, l3) ==
    IF l0 = <<>> THEN <<>>
    ELSE CovidLoop1(Head(l0), l1, l2, l3) \o CovidLoop0(Tail(l0), l1, l2, l3)

\* lines 72-79
CovidCandidates(v) == CovidLoop0(v[1], v[2], v[3], v[4])

Candidates(f, v) == IF f = "covid" THEN CovidCandidates(v) ELSE ChexpertCandidates(v)

\* faulty variant: random.choices: k positions, a position possibly twice
SampleWithReplacement(cls_prompts, k) ==
    IF ~IsNone(k) /\ k[1] < Len(cls_prompts)
    THEN {Pick(cls_prompts, pos) : pos \in [1..k[1] -> 1..Len(cls_prompts)]}
    ELSE {cls_prompts}

\* lines 62-65 and 82-85: the lists prompts[k] can be set to
SampleOrAll(cls_prompts, k) ==
    IF ~IsNone(k) /\ k[1] < Len(cls_prompts)
    THEN {Pick(cls_prompts, pos) : pos \in SamplePositions(Len(cls_prompts), k[1])}
    ELSE {cls_prompts}

\* line 66 / 86: print(f'sample {len(prompts[k])} num of prompts for {k} from total ...')
SampleLine(name, got, total) == [line |-> "sample", name |-> name, got |-> got, total |-> total]

\* lines 47-67 / 70-87: the outcomes of the loop over the template's items
RECURSIVE TemplateLoop(_, _, _, _, _)
TemplateLoop(f, items, k, d, out) ==
    IF items = <<>> THEN {[prompts |-> d, printed |-> out]}
    ELSE LET cls_prompts == Candidates(f, Head(items).comps)
         IN  UNION {TemplateLoop(f, Tail(items), k,
                                 DictSet(d, [name |-> Head(items).name, prompts |-> p]),
                                 Append(out, SampleLine(Head(items).name, Len(p), Len(cls_prompts))))
                      : p \in SampleOrAll(cls_prompts, k)}

generate_chexpert_class_prompts(tpl, k) == TemplateLoop("chexpert", tpl, k, <<>>, <<>>)

generate_covid_class_prompts(tpl, k) == TemplateLoop("covid", tpl, k, <<>>, <<>>)

-----------------------------------------------------------------------------
(* Inputs of the prompt generators *)

Texts == {"abcd", "abcde"}
LabelVals == {0, 1}

\* a row: its text, and for each task a label or nothing (NaN)
RowOf(text, labels) ==
    [c \in {"Reports"} \cup DOMAIN labels |-> IF c = "Reports" THEN text ELSE labels[c]]

Labelings == UNION {[dom -> LabelVals] : dom \in SUBSET Range(AllTasks)}

\* a row with its text, or with the text missing (NaN) as well
Rows == {RowOf(text, labels) : text \in Texts, labels \in Labelings} \cup Labelings

Tables == UNION {[1..m -> Rows] : m \in 0..MaxRows}

TaskArg(kind, names) == [kind |-> kind, names |-> names]

\* task=None, task='A', task=['B', 'A'], and tasks that are no column ('C')
TaskArgs ==
    {TaskArg("none", <<>>), TaskArg("str", <<"A">>), TaskArg("list", <<"B", "A">>),
     TaskArg("str", <<"C">>), TaskArg("list", <<"A", "C">>)}

SampleSizes == {None} \cup {Some(k) : k \in 0..MaxN}

\* the phrase lists a component of a template class is taken from
ChexpertPool ==
    << <<"mild", "mild focal", "">>,
       <<"focal opacity", "opacity", "dense opacity">>,
       <<"at left", "at right", "at base">> >>

CovidPool ==
    << <<"patchy", "patchy ground", "">>,
       <<"ground glass", "glass", "dense">>,
       <<"opacity", "consolidation", "haze">>,
       <<"in mid", "in lower", "in peripheral">> >>

ChexpertClasses == <<"Atelectasis", "Edema">>
CovidClasses == <<"COVID">>

Pool(f) == IF f = "covid" THEN CovidPool ELSE ChexpertPool

\* the class whose component lists are the first lens[c] phrases of the pool
ClassOf(f, name, lens) ==
    [name |-> name, comps |-> [c \in DOMAIN lens |-> SubSeq(Pool(f)[c], 1, lens[c])]]

NumCandidates(tpl) == SumSeq([j \in DOMAIN tpl |-> ProdSeq([c \in DOMAIN tpl[j].comps |-> Len(tpl[j].comps[c])])])

TemplatesOf(f, names) ==
    {tpl \in UNION {[1..m -> {ClassOf(f, nm, lens) : nm \in Range(names),
                                                     lens \in [DOMAIN Pool(f) -> 0..MaxPhrases]}]
                      : m \in 0..Len(names)} :
        /\ \A j \in DOMAIN tpl : tpl[j].name = names[j]
        /\ NumCandidates(tpl) <= MaxCand}

\* no generator is called
GenIdle ==
    /\ fn = "none" /\ df_sent = <<>> /\ task = TaskArg("none", <<>>) /\ n = None
    /\ template = <<>> /\ prompts = <<>> /\ gen_pc = "idle" /\ console = <<>>

\* no driver runs
DrvIdle ==
    /\ pc = "idle" /\ checkpoint = None /\ val_data = <<>> /\ i = 0
    /\ batch = 0 /\ correct = 0 /\ acc_list = <<>>

-----------------------------------------------------------------------------
(* ConVIRT: the dual encoder *)

Min(x, y) == IF x < y THEN x ELSE y

\* ConVIRT(): the parameters before the checkpoint is loaded
InitialParams == 0

\* 1 / self.temperature, self.temperature = 0.1
InvTemperature == 10

\* tokenizer.model_max_length
ModelMaxLength == 77

\* The two backbones are pretrained networks. They are stood for by maps into
\* the axis-parallel vectors of the plane, whose L2 norm is an integer, so that
\* the normalisation, the product and the temperature are computed exactly.
Axis(k) == << <<1, 0>>, <<0, 1>>, <<-1, 0>>, <<0, -1>> >>[(k % 4) + 1]

Scale(c, v) == [d \in DOMAIN v |-> c * v[d]]

\* self.image_model(pixel_values), one image
image_model(w, img) == Scale(1 + (img % 2), Axis(img))

\* self.text_projection_head(self.text_model(...)['pooler_output']), one prompt
text_model(w, ids) == Scale(1 + (ids % 3), Axis((2 + w) * ids))

Dot(u, v) == SumSeq([d \in DOMAIN u |-> u[d] * v[d]])

\* embed.norm(dim=-1)
Norm(v) == CHOOSE r \in 0..Dot(v, v) : r * r = Dot(v, v)

\* embed / embed.norm(dim=-1, keepdim=True)
Normalize(v) == [d \in DOMAIN v |-> v[d] \div Norm(v)]

\* compute_loss(logits): the value is not modelled; evaluation never asks for it
compute_loss(logits) == Some("loss")

\* ConVIRT.forward(input_ids, pixel_values, attention_mask, return_loss)
ConVIRT_forward(w, pixels, input_ids, return_loss) ==
    LET img_embed == [a \in DOMAIN pixels |-> Normalize(image_model(w, pixels[a]))]
        text_embed == [p \in DOMAIN input_ids |-> Normalize(text_model(w, input_ids[p]))]
        logits == [a \in DOMAIN pixels |->
                     [p \in DOMAIN input_ids |-> Dot(img_embed[a], text_embed[p]) * InvTemperature]]
    IN  [logits |-> logits,
         loss_value |-> IF return_loss THEN compute_loss(logits) ELSE None]

-----------------------------------------------------------------------------
(* ConVIRTClassifier.forward(pixel_values, prompt_inputs) *)

\* A similarity is a fraction num/den; 0/0 is NaN.
Frac(num, den) == [num |-> num, den |-> den]
IsNaN(x) == x.den = 0

\* torch.mean(logits, 1), one row: the sum over the count, NaN for no element
Mean(row) == Frac(SumSeq(row), Len(row))

\* torch.max(logits, 1)[0], one row of at least one element
Max(row) == Frac(CHOOSE x \in Range(row) : \A y \in Range(row) : y <= x, 1)

\* faulty variant: torch.sum in place of torch.mean
ClassSimSum(flag, logits) ==
    [a \in DOMAIN logits |-> IF flag THEN Frac(SumSeq(logits[a]), 1) ELSE Max(logits[a])]

\* lines 103-106
ClassSim(flag, logits) ==
    [a \in DOMAIN logits |-> IF flag THEN Mean(logits[a]) ELSE Max(logits[a])]

\* torch.max raises on a dimension of size 0, torch.mean does not
ReductionRaises(flag, input_ids) == ~flag /\ Len(input_ids) = 0

\* faulty variant: the model called with its default, return_loss=True
ModelCallWithLoss(w, pixels, input_ids) == ConVIRT_forward(w, pixels, input_ids, TRUE)

\* line 99: self.model(**inputs, return_loss=False)
ModelCall(w, pixels, input_ids) == ConVIRT_forward(w, pixels, input_ids, FALSE)

\* faulty variant: torch.stack(class_similarities, 0): one row per class
StackRows(columns, names) == [logits |-> columns, class_names |-> names]

\* lines 110-114: torch.stack(class_similarities, 1): one row per image
Stack(columns, names) ==
    [logits |-> [a \in DOMAIN columns[1] |-> [j \in DOMAIN columns |-> columns[j][a]]],
     class_names |-> names]

NoOutputs == [logits |-> <<>>, class_names |-> <<>>]
NoModelOutputs == [logits |-> <<>>, loss_value |-> None]

ClfIdle ==
    /\ params = InitialParams /\ ensemble = FALSE /\ pixel_values = <<>> /\ prompt_inputs = <<>>
    /\ clf_pc = "idle" /\ medclip_outputs = NoModelOutputs
    /\ class_similarities = <<>> /\ class_names = <<>> /\ outputs = NoOutputs

\* lines 92-94
ForwardEnter ==
    /\ clf_pc = "called"
    /\ clf_pc' = "loop"
    /\ class_similarities' = <<>>
    /\ class_names' = <<>>
    /\ UNCHANGED <<params, ensemble, pixel_values, prompt_inputs, medclip_outputs, outputs>>
    /\ UNCHANGED <<gen_vars, drv_vars>>

\* lines 95-108, one iteration of the loop over prompt_inputs.items()
ForwardClass ==
    /\ clf_pc = "loop"
    /\ Len(class_names) < Len(prompt_inputs)
    /\ LET cls == prompt_inputs[Len(class_names) + 1]
           out == ModelCall(params, pixel_values, cls.input_ids)
       IN  \/ \* the text encoder is a library: it may refuse a batch of no prompt
              /\ Len(cls.input_ids) = 0
              /\ clf_pc' = "raised"
              /\ UNCHANGED <<medclip_outputs, class_similarities, class_names>>
           \/ /\ ReductionRaises(ensemble, cls.input_ids)
              /\ clf_pc' = "raised"
              /\ medclip_outputs' = out
              /\ UNCHANGED <<class_similarities, class_names>>
           \/ /\ ~ReductionRaises(ensemble, cls.input_ids)
              /\ medclip_outputs' = out
              /\ class_similarities' = Append(class_similarities, ClassSim(ensemble, out.logits))
              /\ class_names' = Append(class_names, cls.name)
              /\ UNCHANGED clf_pc
    /\ UNCHANGED <<params, ensemble, pixel_values, prompt_inputs, outputs>>
    /\ UNCHANGED <<gen_vars, drv_vars>>

\* lines 110-115; torch.stack raises on an empty list
ForwardStack ==
    /\ clf_pc = "loop"
    /\ Len(class_names) = Len(prompt_inputs)
    /\ \/ /\ class_similarities = <<>>
          /\ clf_pc' = "raised"
          /\ UNCHANGED outputs
       \/ /\ class_similarities # <<>>
          /\ outputs' = Stack(class_similarities, class_names)
          /\ clf_pc' = "returned"
    /\ UNCHANGED <<params, ensemble, pixel_values, prompt_inputs, medclip_outputs,
                   class_similarities, class_names>>
    /\ UNCHANGED <<gen_vars, drv_vars>>

\* Inputs of one call of the classifier head
Images == 1..2
TokenRows == 1..2
Weights == 0..1
ClassNames == <<"Atelectasis", "Edema">>

PromptInputs ==
    UNION {{d \in [1..m -> [name : Range(ClassNames),
                            input_ids : UNION {[1..q -> TokenRows] : q \in 0..MaxPrompts}]] :
               \A j \in 1..m : d[j].name = ClassNames[j]}
             : m \in 0..Len(ClassNames)}

ClfInit ==
    /\ GenIdle /\ DrvIdle
    /\ params \in Weights
    /\ ensemble \in BOOLEAN
    /\ pixel_values \in UNION {[1..m -> Images] : m \in 1..MaxImages}
    /\ prompt_inputs \in PromptInputs
    /\ clf_pc = "called"
    /\ medclip_outputs = NoModelOutputs
    /\ class_similarities = <<>> /\ class_names = <<>> /\ outputs = NoOutputs

ClfNext == ForwardEnter \/ ForwardClass \/ ForwardStack

SpecClf == ClfInit /\ [][ClfNext]_vars

-----------------------------------------------------------------------------
(* One call of a prompt generator *)

GenInit ==
    /\ ClfIdle /\ DrvIdle
    /\ gen_pc = "called" /\ prompts = <<>> /\ console = <<>>
    /\ n \in SampleSizes
    /\ \/ fn = "class" /\ df_sent \in Tables /\ task \in TaskArgs /\ template = <<>>
       \/ /\ fn = "chexpert" /\ template \in TemplatesOf("chexpert", ChexpertClasses)
          /\ df_sent = <<>> /\ task = TaskArg("none", <<>>)
       \/ /\ fn = "covid" /\ template \in TemplatesOf("covid", CovidClasses)
          /\ df_sent = <<>> /\ task = TaskArg("none", <<>>)

GenerateClassPrompts ==
    /\ gen_pc = "called" /\ fn = "class"
    /\ \E r \in generate_class_prompts(df_sent, task, n) :
          \/ /\ r.raised
             /\ gen_pc' = "raised"
             /\ UNCHANGED prompts
          \/ /\ ~r.raised
             /\ gen_pc' = "returned"
             /\ prompts' = r.prompts
    /\ UNCHANGED <<fn, df_sent, task, n, template, console, clf_vars, drv_vars>>

GenerateChexpert ==
    /\ gen_pc = "called" /\ fn = "chexpert"
    /\ \E r \in generate_chexpert_class_prompts(template, n) :
          /\ prompts' = r.prompts
          /\ console' = console \o r.printed
    /\ gen_pc' = "returned"
    /\ UNCHANGED <<fn, df_sent, task, n, template, clf_vars, drv_vars>>

GenerateCovid ==
    /\ gen_pc = "called" /\ fn = "covid"
    /\ \E r \in generate_covid_class_prompts(template, n) :
          /\ prompts' = r.prompts
          /\ console' = console \o r.printed
    /\ gen_pc' = "returned"
    /\ UNCHANGED <<fn, df_sent, task, n, template, clf_vars, drv_vars>>

GenNext == GenerateClassPrompts \/ GenerateChexpert \/ GenerateCovid

SpecGen == GenInit /\ [][GenNext]_vars

-----------------------------------------------------------------------------
(* The evaluation driver *)

\* for i in range(5)
NumTrials == 5

\* generate_chexpert_class_prompts(n=10)
PromptsPerClass == 10

\* DataLoader(val_data, batch_size=128, shuffle=False)
BatchSize == 128

\* prompts.py, process_class_prompts: one row of token ids per prompt, cut at
\* model_max_length. The tokenizer is a library; a row is stood for by its
\* length, one token per character.
process_class_prompts(cls_prompts) ==
    [j \in DOMAIN cls_prompts |->
        [name |-> cls_prompts[j].name,
         input_ids |-> [p \in DOMAIN cls_prompts[j].prompts |->
                           Min(Len(cls_prompts[j].prompts[p]), ModelMaxLength)]]]

NumBatches(data) == (Len(data) + BatchSize - 1) \div BatchSize

\* the b-th batch of the loader
Batch(data, b) == SubSeq(data, (b - 1) * BatchSize + 1, Min(b * BatchSize, Len(data)))

\* x < y for two similarities that are numbers
Less(x, y) == x.num * y.den < y.num * x.den

\* argmax of one row of the class similarities: the first maximum, NaN counting
\* as the maximum
Argmax(row) ==
    IF \E j \in DOMAIN row : IsNaN(row[j])
    THEN CHOOSE j \in DOMAIN row : IsNaN(row[j]) /\ \A k \in 1..(j - 1) : ~IsNaN(row[k])
    ELSE CHOOSE j \in DOMAIN row :
            /\ \A k \in DOMAIN row : ~Less(row[j], row[k])
            /\ \A k \in 1..(j - 1) : Less(row[k], row[j])

\* the images of the batch whose predicted class is their label
Hits(data, out) ==
    Cardinality({a \in DOMAIN data : out.class_names[Argmax(out.logits[a])] = data[a].label})

\* print(res)
AccLine(acc) == [line |-> "acc", acc |-> acc]

\* print('mean: ..., std: ...'): np.mean of accuracies over the same total;
\* the standard deviation is not modelled
MeanLine(accs) ==
    [line |-> "mean",
     mean |-> Frac(SumSeq([t \in DOMAIN accs |-> accs[t].num]),
                   SumSeq([t \in DOMAIN accs |-> accs[t].den]))]

\* lines 118-122: torch.load raises when the file is absent
LoadCheckpoint ==
    /\ pc = "start"
    /\ \/ /\ IsNone(checkpoint)
          /\ pc' = "halted"
          /\ UNCHANGED params
       \/ /\ ~IsNone(checkpoint)
          /\ params' = checkpoint[1]
          /\ pc' = "trial"
    /\ UNCHANGED <<ensemble, pixel_values, prompt_inputs, clf_pc, medclip_outputs,
                   class_similarities, class_names, outputs>>
    /\ UNCHANGED <<gen_vars, checkpoint, val_data, i, batch, correct, acc_list>>

\* lines 134, 159
TrialBuildPrompts ==
    /\ pc = "trial"
    /\ i < NumTrials
    /\ \E r \in generate_chexpert_class_prompts(template, Some(PromptsPerClass)) :
          /\ prompts' = r.prompts
          /\ console' = console \o r.printed
    /\ pc' = "built"
    /\ UNCHANGED <<fn, df_sent, task, n, template, gen_pc>>
    /\ UNCHANGED <<clf_vars, checkpoint, val_data, i, batch, correct, acc_list>>

\* lines 160-174: the collator tokenizes the prompts, the classifier is built
\* with ensemble=True
TrialBuildEvaluator ==
    /\ pc = "built"
    /\ prompt_inputs' = process_class_prompts(prompts)
    /\ ensemble' = TRUE
    /\ clf_pc' = "idle"
    /\ batch' = 0
    /\ correct' = 0
    /\ pc' = "evaluate"
    /\ UNCHANGED <<params, pixel_values, medclip_outputs, class_similarities, class_names, outputs>>
    /\ UNCHANGED <<gen_vars, checkpoint, val_data, i, acc_list>>

\* line 177, evaluate(): the next batch is given to the classifier
EvaluateBatch ==
    /\ pc = "evaluate"
    /\ clf_pc = "idle"
    /\ batch < NumBatches(val_data)
    /\ pixel_values' = [a \in DOMAIN Batch(val_data, batch + 1) |-> Batch(val_data, batch + 1)[a].img]
    /\ clf_pc' = "called"
    /\ UNCHANGED <<params, ensemble, prompt_inputs, medclip_outputs, class_similarities,
                   class_names, outputs>>
    /\ UNCHANGED <<gen_vars, drv_vars>>

\* line 177, evaluate(): the predictions of the batch are compared with its labels
EvaluateCollect ==
    /\ pc = "evaluate"
    /\ clf_pc = "returned"
    /\ correct' = correct + Hits(Batch(val_data, batch + 1), outputs)
    /\ batch' = batch + 1
    /\ clf_pc' = "idle"
    /\ UNCHANGED <<params, ensemble, pixel_values, prompt_inputs, medclip_outputs,
                   class_similarities, class_names, outputs>>
    /\ UNCHANGED <<gen_vars, pc, checkpoint, val_data, i, acc_list>>

\* faulty variant: an error of the classifier is caught and the trial is run again
EvaluateRetry ==
    /\ pc = "evaluate"
    /\ clf_pc = "raised"
    /\ pc' = "trial"
    /\ UNCHANGED <<gen_vars, clf_vars, checkpoint, val_data, i, batch, correct, acc_list>>

\* line 177: nothing catches an error of the classifier; the script ends
EvaluateRaise ==
    /\ pc = "evaluate"
    /\ clf_pc = "raised"
    /\ pc' = "halted"
    /\ UNCHANGED <<gen_vars, clf_vars, checkpoint, val_data, i, batch, correct, acc_list>>

\* line 177: evaluate() returns the accuracy over all batches
EvaluateReturn ==
    /\ pc = "evaluate"
    /\ clf_pc = "idle"
    /\ batch = NumBatches(val_data)
    /\ pc' = "record"
    /\ UNCHANGED <<gen_vars, clf_vars, checkpoint, val_data, i, batch, correct, acc_list>>

\* lines 177-179
TrialRecord ==
    /\ pc = "record"
    /\ acc_list' = Append(acc_list, Frac(correct, Len(val_data)))
    /\ console' = Append(console, AccLine(Frac(correct, Len(val_data))))
    /\ i' = i + 1
    /\ pc' = "trial"
    /\ UNCHANGED <<fn, df_sent, task, n, template, prompts, gen_pc>>
    /\ UNCHANGED <<clf_vars, checkpoint, val_data, batch, correct>>

\* line 182, after the loop
Report ==
    /\ pc = "trial"
    /\ i = NumTrials
    /\ console' = Append(console, MeanLine(acc_list))
    /\ pc' = "done"
    /\ UNCHANGED <<fn, df_sent, task, n, template, prompts, gen_pc>>
    /\ UNCHANGED <<clf_vars, checkpoint, val_data, i, batch, correct, acc_list>>

\* Inputs of the driver
CheckpointParams == 1..2

ValData ==
    <<[img |-> 1, label |-> "Atelectasis"], [img |-> 2, label |-> "Edema"],
      [img |-> 3, label |-> "Atelectasis"]>>

DrvInit ==
    /\ fn = "none" /\ df_sent = <<>> /\ task = TaskArg("none", <<>>) /\ n = None
    /\ template \in TemplatesOf("chexpert", ChexpertClasses)
    /\ prompts = <<>> /\ gen_pc = "idle" /\ console = <<>>
    /\ params = InitialParams /\ ensemble = FALSE /\ pixel_values = <<>> /\ prompt_inputs = <<>>
    /\ clf_pc = "idle" /\ medclip_outputs = NoModelOutputs
    /\ class_similarities = <<>> /\ class_names = <<>> /\ outputs = NoOutputs
    /\ pc = "start"
    /\ checkpoint \in {None} \cup {Some(w) : w \in CheckpointParams}
    /\ val_data = ValData
    /\ i = 0 /\ batch = 0 /\ correct = 0 /\ acc_list = <<>>

DrvNext ==
    \/ LoadCheckpoint
    \/ TrialBuildPrompts
    \/ TrialBuildEvaluator
    \/ EvaluateBatch
    \/ ForwardEnter
    \/ ForwardClass
    \/ ForwardStack
    \/ EvaluateCollect
    \/ EvaluateRaise
    \/ EvaluateReturn
    \/ TrialRecord
    \/ Report

SpecDriver == DrvInit /\ [][DrvNext]_vars

-----------------------------------------------------------------------------
(* Properties of the prompt generators *)

TemplateCall == fn \in {"chexpert", "covid"}

\* the number of phrase combinations of a class
Count(v) == ProdSeq([c \in DOMAIN v |-> Len(v[c])])

\* the p-th phrase combination of a class, the last component varying fastest
Combination(v, p) ==
    LET Stride(c) == ProdSeq([e \in 1..(Len(v) - c) |-> Len(v[c + e])])
    IN  [c \in DOMAIN v |-> v[c][(((p - 1) \div Stride(c)) % Len(v[c])) + 1]]

RECURSIVE SpaceJoin(_)
SpaceJoin(ws) == IF Len(ws) = 1 THEN ws[1] ELSE ws[1] \o " " \o SpaceJoin(Tail(ws))

CrossProduct(v) == [p \in 1..Count(v) |-> SpaceJoin(Combination(v, p))]

\* every choice of one phrase per component, space-joined
RECURSIVE CandidateSet(_)
CandidateSet(v) ==
    IF Len(v) = 1 THEN Range(v[1])
    ELSE {k0 \o " " \o rest : k0 \in Range(v[1]), rest \in CandidateSet(Tail(v))}

TakesAll(k, v) == IsNone(k) \/ k[1] >= Count(v)

\* C3: a template generator that returns has, for each class whose candidate
\* count n does not undercut (n is None or n >= count), the full cross-product
\* of the class's component lists as space-joined strings, first component
\* outermost and last innermost: as many prompts as the product of the lengths.
C3_FullCrossProduct ==
    (gen_pc = "returned" /\ TemplateCall) =>
        /\ Len(prompts) = Len(template)
        /\ \A j \in DOMAIN template :
              TakesAll(n, template[j].comps) =>
                 /\ prompts[j].name = template[j].name
                 /\ Len(prompts[j].prompts) = Count(template[j].comps)
                 /\ prompts[j].prompts = CrossProduct(template[j].comps)

C3_Witness ==
    /\ gen_pc = "returned" /\ fn = "chexpert" /\ IsNone(n)
    /\ Len(template) = 2
    /\ Count(template[1].comps) = 8 /\ Count(template[2].comps) = 0
    /\ Len(prompts[1].prompts) = 8
    /\ prompts[1].prompts[2] = "mild focal opacity at right"
    /\ prompts[1].prompts[3] = "mild opacity at left"

C3_WitnessCovid ==
    /\ gen_pc = "returned" /\ fn = "covid" /\ IsNone(n)
    /\ Len(template) = 1 /\ Len(prompts[1].prompts) = 8
    /\ Len(template[1].comps[1]) = 2 /\ Len(template[1].comps[4]) = 2

Undercut(k, v) == ~IsNone(k) /\ k[1] < Count(v)

PairwiseDistinct(s) == \A a, b \in DOMAIN s : a # b => s[a] # s[b]

\* C4 as claimed: with n smaller than a class's candidate count the class gets
\* exactly n prompts, pairwise distinct, all members of its candidate set.
C4_SampleDistinctPrompts ==
    (gen_pc = "returned" /\ TemplateCall) =>
        \A j \in DOMAIN template :
            Undercut(n, template[j].comps) =>
               /\ Len(prompts[j].prompts) = n[1]
               /\ PairwiseDistinct(prompts[j].prompts)
               /\ Range(prompts[j].prompts) \subseteq CandidateSet(template[j].comps)

\* C4 amended: with n smaller than a class's candidate count the class gets
\* exactly n prompts, taken from n different positions of its candidate list
\* (two positions may hold the same string), all members of its candidate set.
C4_SampleDistinctPositions ==
    (gen_pc = "returned" /\ TemplateCall) =>
        \A j \in DOMAIN template :
            Undercut(n, template[j].comps) =>
               LET got == prompts[j].prompts
                   cands == CrossProduct(template[j].comps)
               IN  /\ Len(got) = n[1]
                   /\ \E pos \in [DOMAIN got -> DOMAIN cands] :
                         /\ PairwiseDistinct(pos)
                         /\ \A a \in DOMAIN got : got[a] = cands[pos[a]]
                   /\ Range(got) \subseteq CandidateSet(template[j].comps)

C4_Witness ==
    /\ gen_pc = "returned" /\ fn = "chexpert" /\ n = Some(2)
    /\ Len(template) = 1 /\ Count(template[1].comps) = 4
    /\ Len(prompts[1].prompts) = 2
    /\ prompts[1].prompts[1] # prompts[1].prompts[2]

HasLabel(row, t, x) == t \in DOMAIN row /\ row[t] = x

IsText(row, p) == "Reports" \in DOMAIN row /\ row["Reports"] = p /\ Len(p) > 4

\* C5 as claimed: every prompt returned for a task is the text, longer than 4
\* characters, of a row labelled 1 for the task and 0 for every other task.
C5_ExclusiveRowsLabelledZero ==
    (gen_pc = "returned" /\ fn = "class") =>
        \A j \in DOMAIN prompts : \A a \in DOMAIN prompts[j].prompts :
            \E r \in DOMAIN df_sent :
                /\ IsText(df_sent[r], prompts[j].prompts[a])
                /\ HasLabel(df_sent[r], prompts[j].name, 1)
                /\ \A o \in Range(AllTasks) \ {prompts[j].name} : HasLabel(df_sent[r], o, 0)

\* C5 amended: every prompt returned for a task is the text, longer than 4
\* characters, of a row labelled 1 for the task and, for every other task,
\* labelled 0 or not labelled at all (a missing label is read as 0).
C5_ExclusiveRowsZeroOrMissing ==
    (gen_pc = "returned" /\ fn = "class") =>
        \A j \in DOMAIN prompts : \A a \in DOMAIN prompts[j].prompts :
            \E r \in DOMAIN df_sent :
                /\ IsText(df_sent[r], prompts[j].prompts[a])
                /\ HasLabel(df_sent[r], prompts[j].name, 1)
                /\ \A o \in Range(AllTasks) \ {prompts[j].name} :
                      o \in DOMAIN df_sent[r] => df_sent[r][o] = 0

C5_Witness ==
    /\ gen_pc = "returned" /\ fn = "class" /\ task.kind = "none"
    /\ Len(df_sent) = 2
    /\ HasLabel(df_sent[1], "A", 1) /\ HasLabel(df_sent[1], "B", 1)
    /\ HasLabel(df_sent[2], "A", 1) /\ HasLabel(df_sent[2], "B", 0)
    /\ Len(prompts) = 2 /\ Len(prompts[1].prompts) = 1

\* the classes a call is to build prompts for
ClassesInScope ==
    IF fn = "class" THEN Range(TargetTasks(task)) ELSE {template[j].name : j \in DOMAIN template}

\* C6: the dict a prompt generator returns holds at least one prompt for
\* every class in scope.
C6_EveryClassHasAPrompt ==
    gen_pc = "returned" =>
        /\ Range(Keys(prompts)) = ClassesInScope
        /\ \A j \in DOMAIN prompts : Len(prompts[j].prompts) >= 1

AbsentTask == \E t \in Range(TargetTasks(task)) : t \notin ColumnSet

\* C8: generate_class_prompts called with a task that is no column of the
\* table does not return: no prompt mapping exists, and once the call has
\* ended it has raised.
C8_AbsentTaskRaises ==
    (fn = "class" /\ AbsentTask) =>
        /\ gen_pc \in {"called", "raised"}
        /\ prompts = <<>>
        /\ gen_pc = "called" => ENABLED GenerateClassPrompts

C8_Witness ==
    /\ fn = "class" /\ gen_pc = "raised" /\ task = TaskArg("list", <<"A", "C">>)
    /\ ReportsAreText(df_sent)
    /\ Len(SubSent(LongRows(FillNa(df_sent)), "A")) = 2

-----------------------------------------------------------------------------
(* Properties of the classifier head *)

\* the logits of the batch against the prompts of the j-th class
ClassLogits(j) == ModelCall(params, pixel_values, prompt_inputs[j].input_ids).logits

\* x is the arithmetic mean of row: the deviations from it sum to zero
IsMeanOf(x, row) == x.den > 0 /\ SumSeq([p \in DOMAIN row |-> row[p] * x.den - x.num]) = 0

\* x is the maximum of row: an element of it that no element exceeds
IsMaxOf(x, row) ==
    x.den = 1 /\ (\E p \in DOMAIN row : row[p] = x.num) /\ (\A p \in DOMAIN row : row[p] <= x.num)

\* C1: the similarity forward appends for a class (of at least one prompt) and
\* an image is the arithmetic mean of the image's logits over the prompts of
\* the class when ensemble is true, and their maximum when it is false.
C1_MeanOrMax ==
    \A j \in DOMAIN class_similarities : \A a \in DOMAIN pixel_values :
        Len(prompt_inputs[j].input_ids) >= 1 =>
           /\ ensemble => IsMeanOf(class_similarities[j][a], ClassLogits(j)[a])
           /\ ~ensemble => IsMaxOf(class_similarities[j][a], ClassLogits(j)[a])

C1_Witness ==
    /\ clf_pc = "returned" /\ ensemble
    /\ Len(prompt_inputs) = 2 /\ Len(pixel_values) = 2
    /\ Len(prompt_inputs[2].input_ids) = 2
    /\ ClassLogits(2)[1][1] # ClassLogits(2)[1][2]
    /\ class_similarities[2][1] = Frac(10, 2)

EveryClassHasPrompts == \A j \in DOMAIN prompt_inputs : Len(prompt_inputs[j].input_ids) >= 1

\* C2: what forward returns is a matrix of one row per image and one column
\* per class and a list of as many names; column j holds the reduced
\* similarities of the j-th class of prompt_inputs and class_names[j] is its
\* name.  Given at least one class, and a prompt in every class, forward does
\* not raise.
C2_OneColumnPerClass ==
    /\ clf_pc = "returned" =>
          /\ Len(outputs.class_names) = Len(prompt_inputs)
          /\ Len(outputs.logits) = Len(pixel_values)
          /\ \A a \in DOMAIN pixel_values : Len(outputs.logits[a]) = Len(prompt_inputs)
          /\ \A j \in DOMAIN prompt_inputs :
                /\ outputs.class_names[j] = prompt_inputs[j].name
                /\ \A a \in DOMAIN pixel_values :
                      outputs.logits[a][j] = ClassSim(ensemble, ClassLogits(j))[a]
    /\ (Len(prompt_inputs) >= 1 /\ EveryClassHasPrompts) => clf_pc # "raised"

C2_Witness ==
    /\ clf_pc = "returned" /\ ~ensemble
    /\ Len(prompt_inputs) = 2 /\ Len(pixel_values) = 1
    /\ outputs.logits[1][1] # outputs.logits[1][2]
    /\ outputs.class_names = ClassNames

\* C7: forward given a class of zero prompts does not return, under either
\* policy: it ends in an error.
C7_EmptyClassRaises ==
    (\E j \in DOMAIN prompt_inputs : Len(prompt_inputs[j].input_ids) = 0) =>
        clf_pc # "returned"

-----------------------------------------------------------------------------
(* Properties of the driver *)

\* the lines one call of generate_chexpert_class_prompts(n=10) prints
BuildLines ==
    [j \in DOMAIN template |->
        SampleLine(template[j].name,
                   Min(Count(template[j].comps), PromptsPerClass),
                   Count(template[j].comps))]

\* the lines of completed trials: the prompt set built, then the accuracy
RECURSIVE TrialLines(_)
TrialLines(accs) ==
    IF accs = <<>> THEN <<>> ELSE BuildLines \o <<AccLine(Head(accs))>> \o TrialLines(Tail(accs))

Reported == \E c \in DOMAIN console : console[c].line = "mean"

InTrial == pc \in {"built", "evaluate", "record"}

DriverOrder ==
    /\ Len(acc_list) = i
    /\ i <= NumTrials
    /\ InTrial => i < NumTrials /\ console = TrialLines(acc_list) \o BuildLines
    /\ pc \in {"start", "trial"} => console = TrialLines(acc_list)
    /\ pc = "done" => i = NumTrials /\ console = TrialLines(acc_list) \o <<MeanLine(acc_list)>>
    /\ pc = "halted" => i < NumTrials
    /\ Reported => pc = "done"

DriverStep ==
    /\ pc # "halted" /\ pc # "done"
    /\ pc' = "built" => pc = "trial"
    /\ pc' = "evaluate" => pc \in {"built", "evaluate"}
    /\ pc' = "record" => pc = "evaluate"
    /\ acc_list' # acc_list => pc = "record" /\ Len(acc_list') = Len(acc_list) + 1
    /\ i' # i => pc = "record" /\ i' = i + 1
    /\ pc' = "halted" => pc \in {"start", "evaluate"} /\ console' = console /\ acc_list' = acc_list

\* C9: the driver runs the trials one after the other, each building a prompt
\* set, then evaluating, then appending one accuracy; the mean line is printed
\* once, after 5 accuracies are recorded; an error ends the run for good,
\* with no further trial and no mean line.
C9_FiveTrialsThenReport == [](pc # "idle" => DriverOrder) /\ [][DriverStep]_vars

C9_Witness ==
    /\ pc = "done" /\ Len(acc_list) = 5 /\ Len(template) = 2
    /\ Len(console) = 16
    /\ acc_list[1] = Frac(2, 3)

Loaded == pc \in {"trial", "built", "evaluate", "record", "done"}

ModelFrame ==
    /\ medclip_outputs.loss_value = None
    /\ pc = "start" => params = InitialParams
    /\ Loaded => params = checkpoint[1]

ModelFrameStep ==
    /\ pc' # "start"
    /\ params' # params => pc = "start"
    /\ clf_pc \in {"called", "loop"} =>
          /\ params' = params
          /\ ensemble' = ensemble
          /\ prompt_inputs' = prompt_inputs
    /\ pc \in {"evaluate", "record"} =>
          /\ ensemble' = ensemble
          /\ prompt_inputs' = prompt_inputs

\* C10: the checkpoint is loaded once, before the first trial; from then on no
\* step of the driver or of forward changes the model's parameters, and no
\* step of forward or of a running evaluation changes the ensemble flag or the
\* prompt_inputs; every call of the model leaves the loss undone.
C10_ModelReadOnly == [](pc # "idle" => ModelFrame) /\ [][ModelFrameStep]_vars

C10_Witness ==
    /\ pc = "record" /\ i = 4
    /\ params = 2 /\ checkpoint = Some(2)
    /\ Len(prompt_inputs) = 2
    /\ Len(medclip_outputs.logits) = 3
    /\ Len(medclip_outputs.logits[1]) = 2

====
